---- MODULE Spec2Model ----
(***************************************************************************)
(* clIChing: coin-based I Ching divination.                                *)
(*   hexagram.py  Yao, Hexagram, generate_hexagram                         *)
(*   cli.py       DivinationTable (the interactive session)                *)
(*   display.py   colored_yao                                              *)
(*                                                                         *)
(* SpecHex   one generate_hexagram() followed by get_changing_hexagram()   *)
(*           calls on the latest hexagram (the library used directly).     *)
(* SpecCtor  Hexagram(yaos) called on line sequences of any length.        *)
(* Spec      a DivinationTable session: run() reading commands.            *)
(***************************************************************************)
EXTENDS Integers, Sequences, FiniteSets, TLC

VARIABLES
    hex,                \* the Hexagram most recently built (library specs)
    src,                \* the Hexagram get_changing_hexagram was called on
    positions,          \* the positions argument of that call
    op,                 \* the last library operation
    drawn,              \* the six coin triples of the generate_hexagram call
    repeat,             \* whether the last call repeated the one before it
    printed,            \* what the last library operation printed
    original_hexagram,  \* DivinationTable.original_hexagram
    changed_hexagram,   \* DivinationTable.changed_hexagram
    running,            \* DivinationTable.running
    pc,                 \* where DivinationTable.run is
    last                \* what the last processed command was and printed

vars == <<hex, src, positions, op, drawn, repeat, printed,
          original_hexagram, changed_hexagram, running, pc, last>>

libvars == <<hex, src, positions, op, drawn, repeat, printed>>
tablevars == <<original_hexagram, changed_hexagram, running, pc, last>>

(***************************************************************************)
(* Bounds.                                                                 *)
(***************************************************************************)
\* generate_hexagram's 18 coin tosses are enumerated by 0..MaxSeed
MaxSeed == 15
\* integers named in a positions argument or a change command: 0..MaxPos
MaxPos == 7
\* a positions argument names at most MaxPicks distinct integers
MaxPicks == 2
\* Hexagram(yaos) is tried on sequences of 0..MaxCtorLen lines
MaxCtorLen == 7

\* Python's None
None == [isNone |-> TRUE]

\* nothing printed
NoPrint == [colored |-> FALSE, lines |-> <<>>]

(***************************************************************************)
(* hexagram.py                                                             *)
(***************************************************************************)
\* random.randint(0, 1)
Coins == {0, 1}

CoinTriples == Coins \X Coins \X Coins

\* sum(coins)
sum_coins(coins) == coins[1] + coins[2] + coins[3]

\* @dataclass Yao
Yao(value, changing, coins) ==
    [value |-> value, changing |-> changing, coins |-> coins]

\* the rule of generate_hexagram with sums 1 and 2 exchanged
classify_swapped(coins) ==
    IF sum_coins(coins) = 0 THEN Yao(0, TRUE, coins)
    ELSE IF sum_coins(coins) = 1 THEN Yao(0, FALSE, coins)
    ELSE IF sum_coins(coins) = 2 THEN Yao(1, FALSE, coins)
    ELSE Yao(1, TRUE, coins)

\* generate_hexagram: "Determine Yao based on rules"
classify(coins) ==
    IF sum_coins(coins) = 0 THEN Yao(0, TRUE, coins)
    ELSE IF sum_coins(coins) = 1 THEN Yao(1, FALSE, coins)
    ELSE IF sum_coins(coins) = 2 THEN Yao(0, FALSE, coins)
    ELSE Yao(1, TRUE, coins)

\* 1 << i
shl1(i) == 2 ^ i

\* the loop of _calculate_hexagram taking the top Yao as the lowest bit
RECURSIVE calculate_number_msb(_, _, _)
calculate_number_msb(yaos, i, number) ==
    IF i >= Len(yaos) THEN number
    ELSE calculate_number_msb(yaos, i + 1,
            IF yaos[i + 1].value = 1
            THEN number + shl1(Len(yaos) - 1 - i) ELSE number)

\* the loop of _calculate_hexagram: enumerate(self.yaos) from i onwards
RECURSIVE calculate_number(_, _, _)
calculate_number(yaos, i, number) ==
    IF i >= Len(yaos) THEN number
    ELSE calculate_number(yaos, i + 1,
            IF yaos[i + 1].value = 1 THEN number + shl1(i) ELSE number)

\* the binary digits of n, most significant first ("b")
RECURSIVE to_binary(_)
to_binary(n) ==
    IF n < 2 THEN <<n>> ELSE to_binary(n \div 2) \o <<n % 2>>

\* format(number, "06b"): zero-padded to a width of at least 6
format_06b(number) ==
    LET b == to_binary(number)
    IN  IF Len(b) >= 6 THEN b ELSE [k \in 1..(6 - Len(b)) |-> 0] \o b

\* Hexagram.__init__ with _calculate_hexagram
Hexagram(yaos) ==
    LET number == calculate_number(yaos, 0, 0)
    IN  [yaos |-> yaos,
         original_number |-> number,
         original_binary |-> format_06b(number)]

\* the changing branch with the synthesized coins exchanged
changed_yao_coins_swapped(yao) ==
    LET new_value == IF yao.value = 0 THEN 1 ELSE 0
        new_coins == IF new_value = 0 THEN <<1, 0, 0>> ELSE <<0, 1, 1>>
    IN  Yao(new_value, FALSE, new_coins)

\* get_changing_hexagram: the "Changing Yao" branch
changed_yao(yao) ==
    LET new_value == IF yao.value = 0 THEN 1 ELSE 0
        new_coins == IF new_value = 0 THEN <<0, 1, 1>> ELSE <<1, 0, 0>>
    IN  Yao(new_value, FALSE, new_coins)

\* get_changing_hexagram: the "Unchanged Yao" branch
unchanged_yao(yao) == Yao(yao.value, yao.changing, yao.coins)

\* get_changing_hexagram without the test of yao.changing
get_changing_hexagram_any(self, posns) ==
    Hexagram([idx \in 1..Len(self.yaos) |->
        IF idx \in posns
        THEN changed_yao(self.yaos[idx])
        ELSE unchanged_yao(self.yaos[idx])])

\* get_changing_hexagram where a changed Yao stays changeable
get_changing_hexagram_still(self, posns) ==
    Hexagram([idx \in 1..Len(self.yaos) |->
        IF idx \in posns /\ self.yaos[idx].changing
        THEN [changed_yao(self.yaos[idx]) EXCEPT !.changing = TRUE]
        ELSE unchanged_yao(self.yaos[idx])])

\* get_changing_hexagram where every copied Yao loses its changing flag
get_changing_hexagram_clear(self, posns) ==
    Hexagram([idx \in 1..Len(self.yaos) |->
        IF idx \in posns /\ self.yaos[idx].changing
        THEN changed_yao(self.yaos[idx])
        ELSE Yao(self.yaos[idx].value, FALSE, self.yaos[idx].coins)])

\* Hexagram.get_changing_hexagram(positions); position = idx + 1
get_changing_hexagram(self, posns) ==
    Hexagram([idx \in 1..Len(self.yaos) |->
        IF idx \in posns /\ self.yaos[idx].changing
        THEN changed_yao(self.yaos[idx])
        ELSE unchanged_yao(self.yaos[idx])])

\* generate_hexagram given the coins its six rounds of tosses produce
generate_hexagram(draws) ==
    Hexagram([k \in 1..6 |-> classify(draws[k])])

\* The outcomes of the 18 calls of random.randint(0, 1), enumerated: toss j
\* of line k is bit 3(k-1)+(j-1) of (40503 * seed) mod 2^18.  Multiplying by
\* an odd number permutes 0..2^18-1, so the seeds 0..2^18-1 are all outcomes.
draws_of(seed) ==
    LET n == (seed * 40503) % (2 ^ 18)
    IN  [k \in 1..6 |->
           <<(n \div (2 ^ (3 * (k - 1)))) % 2,
             (n \div (2 ^ (3 * (k - 1) + 1))) % 2,
             (n \div (2 ^ (3 * (k - 1) + 2))) % 2>>]

Seeds == 0..MaxSeed

\* the values a positions argument is made of
PositionValues == 0..MaxPos

\* the positions arguments tried (a list is used only through "in")
PositionSets == {S \in SUBSET PositionValues : Cardinality(S) <= MaxPicks}

(***************************************************************************)
(* display.py and the display methods of hexagram.py.  A string is the     *)
(* sequence of the pieces it is formatted from.                            *)
(***************************************************************************)
\* colored_yao(coins, value, changing): f"{color}{symbol}{Color.END}{marker}"
colored_yao(coins, value, changing) ==
    LET s == sum_coins(coins)
        symbol == IF s = 0 \/ s = 2 THEN "### ###" ELSE "#######"
        color == IF s = 0 \/ s = 3 THEN "BLUE" ELSE "RED"
        marker == IF s = 0 /\ changing THEN <<" x">>
                  ELSE IF s = 3 /\ changing THEN <<" o">>
                  ELSE <<>>
    IN  <<color, symbol, "END">> \o marker

\* Yao.display(colored)
yao_display(yao, colored) ==
    IF colored
    THEN colored_yao(yao.coins, yao.value, yao.changing)
    ELSE IF yao.value = 0
         THEN (IF yao.changing THEN <<"### ###">> ELSE <<"#######">>)
         ELSE (IF yao.changing THEN <<"#######">> ELSE <<"### ###">>)

\* the loop of Hexagram.display running from the First Yao to the Top Yao
RECURSIVE display_loop_up(_, _, _, _)
display_loop_up(self, colored, i, lines) ==
    IF i < 0 THEN lines
    ELSE display_loop_up(self, colored, i - 1,
             Append(lines, yao_display(self.yaos[6 - i], colored)))

\* the loop of Hexagram.display: for i in range(5, -1, -1), from i onwards
RECURSIVE display_loop(_, _, _, _)
display_loop(self, colored, i, lines) ==
    IF i < 0 THEN lines
    ELSE display_loop(self, colored, i - 1,
             Append(lines, yao_display(self.yaos[i + 1], colored)))

\* Hexagram.display(colored): the lines handed to print, in order
hexagram_display(self, colored) == display_loop(self, colored, 5, <<>>)

(***************************************************************************)
(* SpecHex: the library used directly.                                     *)
(***************************************************************************)
NoTable ==
    /\ original_hexagram = None
    /\ changed_hexagram = None
    /\ running = TRUE
    /\ pc = "unused"
    /\ last = [kind |-> "unused"]

InitHex ==
    /\ hex = None
    /\ src = None
    /\ positions = {}
    /\ op = "none"
    /\ drawn = <<>>
    /\ repeat = "no"
    /\ printed = NoPrint
    /\ NoTable

Generate ==
    /\ op = "none"
    /\ \E seed \in Seeds :
         /\ drawn' = draws_of(seed)
         /\ hex' = generate_hexagram(draws_of(seed))
    /\ op' = "generate"
    /\ printed' = NoPrint
    /\ UNCHANGED <<src, positions, repeat>>
    /\ UNCHANGED tablevars

Derive ==
    /\ op \in {"generate", "derive"}
    /\ \E posns \in PositionSets :
         /\ src' = hex
         /\ positions' = posns
         /\ hex' = get_changing_hexagram(hex, posns)
         /\ repeat' = IF op = "derive" /\ posns = positions
                      THEN (IF hex = src THEN "after_noop" ELSE "after_flip")
                      ELSE "no"
    /\ op' = "derive"
    /\ printed' = NoPrint
    /\ UNCHANGED drawn
    /\ UNCHANGED tablevars

NextHex == Generate \/ Derive

SpecHex == InitHex /\ [][NextHex]_vars

(***************************************************************************)
(* SpecDisplay: the library used directly, hexagrams being displayed.      *)
(***************************************************************************)
Display ==
    /\ op \in {"generate", "derive", "display"}
    /\ \E colored \in BOOLEAN :
         printed' = [colored |-> colored,
                     lines |-> hexagram_display(hex, colored)]
    /\ op' = "display"
    /\ UNCHANGED <<hex, src, positions, drawn, repeat>>
    /\ UNCHANGED tablevars

NextDisplay == Generate \/ Derive \/ Display

SpecDisplay == InitHex /\ [][NextDisplay]_vars

(***************************************************************************)
(* SpecCtor: Hexagram(yaos) on line sequences of any length.               *)
(***************************************************************************)
\* a sequence of n Yao: the lines of a generated hexagram, cut or repeated
ctor_yaos(seed, n) ==
    [k \in 1..n |-> classify(draws_of(seed)[((k - 1) % 6) + 1])]

Construct ==
    /\ \E seed \in Seeds, n \in 0..MaxCtorLen :
         hex' = Hexagram(ctor_yaos(seed, n))
    /\ op' = "construct"
    /\ UNCHANGED <<src, positions, drawn, repeat, printed>>
    /\ UNCHANGED tablevars

NextCtor == Construct

SpecCtor == InitHex /\ [][NextCtor]_vars

(***************************************************************************)
(* hexagram.py: the interpretation lookup.                                 *)
(***************************************************************************)
\* What data/hexagrams/NN.txt is when it is looked up: absent, readable as
\* utf-8, readable only as gbk, or present and readable as neither.
FileStates == {"missing", "utf8", "gbk", "unreadable"}

\* Hexagram.get_interpretation(hexagram_number)
get_interpretation(hexagram_number, file) ==
    IF file # "missing"
    THEN IF file = "utf8"
         THEN [raised |-> FALSE, text |-> "file text"]
         ELSE IF file = "gbk"
              THEN [raised |-> FALSE, text |-> "file text"]
              ELSE [raised |-> TRUE, text |-> "none"]
    ELSE [raised |-> FALSE, text |-> "file not found"]

\* Hexagram.display_interpretation(): what print receives, or the exception
display_interpretation(self, file) ==
    get_interpretation(self.original_number, file)

(***************************************************************************)
(* cli.py: DivinationTable                                                 *)
(***************************************************************************)
\* A command line as input().strip() returns it: the text up to the first
\* space and, when there is a space, the characters after it.
Command(word, space, rest) == [word |-> word, space |-> space, rest |-> rest]

DigitChars == {"0", "1", "2", "3", "4", "5", "6", "7", "8", "9"}

digit_value(c) ==
    CASE c = "0" -> 0 [] c = "1" -> 1 [] c = "2" -> 2 [] c = "3" -> 3
      [] c = "4" -> 4 [] c = "5" -> 5 [] c = "6" -> 6 [] c = "7" -> 7
      [] c = "8" -> 8 [] c = "9" -> 9

\* int(num) of a string of digits
RECURSIVE int_of(_)
int_of(num) ==
    IF num = <<>> THEN 0
    ELSE 10 * int_of(SubSeq(num, 1, Len(num) - 1)) + digit_value(num[Len(num)])

\* re.findall(r"\d+", text): the maximal runs of digits, left to right
RECURSIVE findall_digits(_, _, _, _)
findall_digits(text, i, run, found) ==
    IF i > Len(text)
    THEN (IF run = <<>> THEN found ELSE Append(found, run))
    ELSE IF text[i] \in DigitChars
         THEN findall_digits(text, i + 1, Append(run, text[i]), found)
         ELSE findall_digits(text, i + 1, <<>>,
                  IF run = <<>> THEN found ELSE Append(found, run))

\* command.lower() on the first word of the commands tried
lower(word) ==
    CASE word = "G" -> "g"
      [] word = "C" -> "c"
      [] word = "Quit" -> "quit"
      [] OTHER -> word

\* self.yaos[i] with Python's indexing: -len..-1 count from the end
py_index_ok(yaos, i) == i >= -Len(yaos) /\ i < Len(yaos)
py_index(yaos, i) == IF i >= 0 THEN yaos[i + 1] ELSE yaos[Len(yaos) + i + 1]

\* the fields of a DivinationTable
Table(original, changed, run_flag) ==
    [original_hexagram |-> original,
     changed_hexagram |-> changed,
     running |-> run_flag]

\* what a handler leaves behind: the table, the messages printed and
\* whether an exception left the handler
Result(self, out, raised) == [table |-> self, out |-> out, raised |-> raised]

\* get_hexagram keeping the changed hexagram
get_hexagram_keep(self, draws, file) ==
    LET new == generate_hexagram(draws)
        t == Table(new, self.changed_hexagram, self.running)
        interp == display_interpretation(new, file)
    IN  IF interp.raised
        THEN Result(t, <<"hexagram">>, TRUE)
        ELSE Result(t, <<"hexagram", interp.text>>, FALSE)

\* DivinationTable.get_hexagram()
get_hexagram(self, draws, file) ==
    LET new == generate_hexagram(draws)
        t == Table(new, None, self.running)
        interp == display_interpretation(new, file)
    IN  IF interp.raised
        THEN Result(t, <<"hexagram">>, TRUE)
        ELSE Result(t, <<"hexagram", interp.text>>, FALSE)

\* the range test looking only at the upper end
out_of_range_high(posns) == \E pos \in posns : pos > 6

\* change_hexagram: some position fails "pos < 1 or pos > 6"
out_of_range(posns) == \E pos \in posns : pos < 1 \/ pos > 6

\* change_hexagram: nums_part
nums_part(command) == IF command.space THEN command.rest ELSE <<>>

\* change_hexagram: list(set(int(num) for num in numbers))
parse_positions(command) ==
    LET numbers == findall_digits(nums_part(command), 1, <<>>, <<>>)
    IN  {int_of(numbers[k]) : k \in 1..Len(numbers)}

\* the positions kept only when every named Yao is changing
changing_positions_strict(self, posns) ==
    IF \A pos \in posns : py_index(self.original_hexagram.yaos, pos - 1).changing
    THEN posns ELSE {}

\* every named position taken as changing
changing_positions_all(self, posns) == posns

\* change_hexagram: the positions whose Yao is changing
changing_positions(self, posns) ==
    {pos \in posns : py_index(self.original_hexagram.yaos, pos - 1).changing}

\* change_hexagram: the warning printed when a named Yao is not changing
warnings(self, posns) ==
    IF changing_positions(self, posns) # posns
    THEN <<"warning: yao is not changing">> ELSE <<>>

\* the changed hexagram stored over the original as well, as when the
\* derivation edits the Yao of its source in place
store_changed_shared(self, new) == Table(new, new, self.running)

\* change_hexagram: self.changed_hexagram = ...
store_changed(self, new) == Table(self.original_hexagram, new, self.running)

\* DivinationTable.change_hexagram(command)
change_hexagram(self, command, file) ==
    IF self.original_hexagram = None
    THEN Result(self, <<"get an original hexagram first">>, FALSE)
    ELSE IF nums_part(command) = <<>>
    THEN Result(self, <<"usage">>, FALSE)
    ELSE IF findall_digits(nums_part(command), 1, <<>>, <<>>) = <<>>
    THEN Result(self, <<"no valid numbers found">>, FALSE)
    ELSE LET posns == parse_positions(command)
         IN  IF out_of_range(posns)
             THEN Result(self, <<"error: position must be between 1-6">>, FALSE)
             ELSE IF \E pos \in posns :
                        ~py_index_ok(self.original_hexagram.yaos, pos - 1)
             THEN Result(self, <<"parsing error">>, FALSE)
             ELSE IF changing_positions(self, posns) = {}
             THEN Result(self, warnings(self, posns) \o <<"no changeable yao">>,
                         FALSE)
             ELSE LET new == get_changing_hexagram(self.original_hexagram,
                                     changing_positions(self, posns))
                      t == store_changed(self, new)
                      interp == display_interpretation(new, file)
                  IN  IF interp.raised
                      THEN Result(t, warnings(self, posns)
                                     \o <<"changing positions", "hexagram",
                                          "parsing error">>, FALSE)
                      ELSE Result(t, warnings(self, posns)
                                     \o <<"changing positions", "hexagram",
                                          interp.text>>, FALSE)

\* DivinationTable.show_help()
show_help(self) == Result(self, <<"help">>, FALSE)

\* DivinationTable.show_current()
show_current(self) ==
    IF self.original_hexagram = None
    THEN Result(self, <<"no hexagram available">>, FALSE)
    ELSE IF self.changed_hexagram # None
         THEN Result(self, <<"hexagram", "hexagram">>, FALSE)
         ELSE Result(self, <<"hexagram">>, FALSE)

\* reset_table clearing only the original hexagram
reset_table_original_only(self) ==
    Result(Table(None, self.changed_hexagram, self.running), <<"cleared">>, FALSE)

\* reset_table clearing only the changed hexagram
reset_table_changed_only(self) ==
    Result(Table(self.original_hexagram, None, self.running), <<"cleared">>, FALSE)

\* DivinationTable.reset_table()
reset_table(self) == Result(Table(None, None, self.running), <<"cleared">>, FALSE)

\* the quit branch leaving self.running as it is
quit_command_keep(self) == Result(self, <<"return to terminal">>, FALSE)

\* process_command: self.running = False
quit_command(self) ==
    Result(Table(self.original_hexagram, self.changed_hexagram, FALSE),
           <<"return to terminal">>, FALSE)

\* process_command: the branch a command is dispatched to
handler_of(command) ==
    LET cmd == lower(command.word)
    IN  IF command.word = "" /\ ~command.space THEN "empty"
        ELSE IF cmd \in {"q", "quit", "exit", "system"} THEN "quit"
        ELSE IF cmd \in {"g", "get"} THEN "get"
        ELSE IF cmd \in {"c", "change"} THEN "change"
        ELSE IF cmd \in {"h", "help"} THEN "help"
        ELSE IF cmd \in {"s", "show"} THEN "show"
        ELSE IF cmd \in {"clear", "reset"} THEN "reset"
        ELSE "unknown"

\* DivinationTable.process_command(command)
process_command(self, command, draws, file) ==
    LET h == handler_of(command)
    IN  IF h = "empty" THEN Result(self, <<>>, FALSE)
        ELSE IF h = "quit" THEN quit_command(self)
        ELSE IF h = "get" THEN get_hexagram(self, draws, file)
        ELSE IF h = "change" THEN change_hexagram(self, command, file)
        ELSE IF h = "help" THEN show_help(self)
        ELSE IF h = "show" THEN show_current(self)
        ELSE IF h = "reset" THEN reset_table(self)
        ELSE Result(self, <<"unknown command">>, FALSE)

(***************************************************************************)
(* The command lines tried.                                                *)
(***************************************************************************)
\* str(n)
RECURSIVE str_of(_)
str_of(n) ==
    LET d == CHOOSE c \in DigitChars : digit_value(c) = n % 10
    IN  IF n < 10 THEN <<d>> ELSE str_of(n \div 10) \o <<d>>

\* the numbers of S in increasing order, separated by commas: "1,3,5"
RECURSIVE comma_list(_)
comma_list(S) ==
    IF S = {} THEN <<>>
    ELSE LET m == CHOOSE x \in S : \A y \in S : x <= y
         IN  IF S = {m} THEN str_of(m)
             ELSE str_of(m) \o <<",">> \o comma_list(S \ {m})

\* other arguments: no digit, a sign, a leading zero, two digits, blanks
OtherArguments ==
    {<<"x">>, <<"-", "1">>, <<"0", "3">>, <<"1", "2">>, <<"2", " ", "4">>}

ChangeCommands ==
    {Command("c", TRUE, comma_list(S)) : S \in PositionSets \ {{}}}
        \cup {Command("c", TRUE, a) : a \in OtherArguments}
        \cup {Command("c", FALSE, <<>>),
              Command("C", TRUE, <<"1">>),
              Command("change", TRUE, <<"1", ",", "6">>)}

GetCommands == {Command("g", FALSE, <<>>), Command("get", FALSE, <<>>),
                Command("G", FALSE, <<>>)}

QuitCommands == {Command("q", FALSE, <<>>), Command("quit", FALSE, <<>>),
                 Command("exit", FALSE, <<>>), Command("system", FALSE, <<>>),
                 Command("Quit", FALSE, <<>>)}

HelpCommands == {Command("h", FALSE, <<>>), Command("help", FALSE, <<>>)}

ShowCommands == {Command("s", FALSE, <<>>), Command("show", FALSE, <<>>)}

ResetCommands == {Command("clear", FALSE, <<>>), Command("reset", FALSE, <<>>)}

UnknownCommands == {Command("x", FALSE, <<>>), Command("7", FALSE, <<>>),
                    Command("go", TRUE, <<"1">>)}

EmptyCommand == Command("", FALSE, <<>>)

(***************************************************************************)
(* Spec: DivinationTable.run()                                             *)
(***************************************************************************)
NoLib ==
    /\ hex = None
    /\ src = None
    /\ positions = {}
    /\ op = "unused"
    /\ drawn = <<>>
    /\ repeat = "no"
    /\ printed = NoPrint

\* the value of last before any command
NoCommand ==
    [kind |-> "none", positions |-> {}, argument |-> FALSE,
     out |-> <<>>, had_changed |-> FALSE, after_reset |-> FALSE]

\* DivinationTable.__init__ and the start of run()
Init ==
    /\ original_hexagram = None
    /\ changed_hexagram = None
    /\ running = TRUE
    /\ pc = "loop"
    /\ last = NoCommand
    /\ NoLib

\* the table as a record
self_table == Table(original_hexagram, changed_hexagram, running)

\* One turn of the loop of run(): the command read is processed; the loop
\* goes on while self.running, and an exception leaving process_command
\* ends the program.
Turn(command, draws, file) ==
    \E r \in {process_command(self_table, command, draws, file)} :
        /\ original_hexagram' = r.table.original_hexagram
        /\ changed_hexagram' = r.table.changed_hexagram
        /\ running' = r.table.running
        /\ pc' = IF r.raised THEN "crashed"
                 ELSE IF r.table.running THEN "loop" ELSE "done"
        /\ last' = [kind |-> handler_of(command),
                    positions |-> IF handler_of(command) = "change"
                                  THEN parse_positions(command) ELSE {},
                    argument |-> handler_of(command) = "change"
                                  /\ nums_part(command) # <<>>,
                    out |-> r.out,
                    had_changed |-> changed_hexagram # None,
                    after_reset |->
                        IF handler_of(command) = "reset" THEN TRUE
                        ELSE IF handler_of(command) = "get" THEN FALSE
                        ELSE last.after_reset]
        /\ UNCHANGED libvars

AtPrompt == pc = "loop" /\ running

Get ==
    /\ AtPrompt
    /\ \E command \in GetCommands, seed \in Seeds, file \in FileStates :
         Turn(command, draws_of(seed), file)

Change ==
    /\ AtPrompt
    /\ \E command \in ChangeCommands, file \in FileStates :
         Turn(command, <<>>, file)

Show ==
    /\ AtPrompt
    /\ \E command \in ShowCommands : Turn(command, <<>>, "missing")

Help ==
    /\ AtPrompt
    /\ \E command \in HelpCommands : Turn(command, <<>>, "missing")

Reset ==
    /\ AtPrompt
    /\ \E command \in ResetCommands : Turn(command, <<>>, "missing")

Quit ==
    /\ AtPrompt
    /\ \E command \in QuitCommands : Turn(command, <<>>, "missing")

Unknown ==
    /\ AtPrompt
    /\ \E command \in UnknownCommands : Turn(command, <<>>, "missing")

Empty ==
    /\ AtPrompt
    /\ Turn(EmptyCommand, <<>>, "missing")

\* input() raises EOFError or KeyboardInterrupt: break
EndOfInput ==
    /\ AtPrompt
    /\ pc' = "done"
    /\ last' = [NoCommand EXCEPT !.kind = "end of input",
                                 !.out = <<"exit the divination table">>,
                                 !.had_changed = changed_hexagram # None,
                                 !.after_reset = last.after_reset]
    /\ UNCHANGED <<original_hexagram, changed_hexagram, running>>
    /\ UNCHANGED libvars

Next ==
    \/ Get
    \/ Change
    \/ Show
    \/ Help
    \/ Reset
    \/ Quit
    \/ Unknown
    \/ Empty
    \/ EndOfInput

Spec == Init /\ [][Next]_vars

(***************************************************************************)
(* Claims about hexagram.py                                                *)
(***************************************************************************)
\* the positions of a 6-line hexagram
Lines == 1..6

\* C1: every line generate_hexagram produces keeps the triple drawn for it
\* and is classified by the triple's sum: 0 Yin changing, 1 Yang not
\* changing, 2 Yin not changing, 3 Yang changing.
C1_ClassifiedBySum ==
    op = "generate" =>
        /\ Len(hex.yaos) = 6
        /\ \A k \in Lines :
             LET y == hex.yaos[k]
                 s == drawn[k][1] + drawn[k][2] + drawn[k][3]
             IN  /\ y.coins = drawn[k]
                 /\ (s = 0 => y.value = 0 /\ y.changing = TRUE)
                 /\ (s = 1 => y.value = 1 /\ y.changing = FALSE)
                 /\ (s = 2 => y.value = 0 /\ y.changing = FALSE)
                 /\ (s = 3 => y.value = 1 /\ y.changing = TRUE)

\* a generated hexagram whose draws show all four sums, the sum of 1 drawn
\* in two different orders
C1_Witness ==
    /\ op = "generate"
    /\ {drawn[k][1] + drawn[k][2] + drawn[k][3] : k \in Lines} = 0..3
    /\ \E k \in Lines : drawn[k] = <<0, 1, 0>>
    /\ \E k \in Lines : drawn[k] = <<0, 0, 1>>

\* C2: the identity of a generated or derived hexagram is the sum of
\* 2^(i-1) over the positions i whose line is Yang, line 1 being the lowest
\* bit and line 6 the highest; it lies in 0..63.
C2_Identity ==
    op \in {"generate", "derive"} =>
        /\ Len(hex.yaos) = 6
        /\ hex.original_number =
              (IF hex.yaos[1].value = 1 THEN 1 ELSE 0)
            + (IF hex.yaos[2].value = 1 THEN 2 ELSE 0)
            + (IF hex.yaos[3].value = 1 THEN 4 ELSE 0)
            + (IF hex.yaos[4].value = 1 THEN 8 ELSE 0)
            + (IF hex.yaos[5].value = 1 THEN 16 ELSE 0)
            + (IF hex.yaos[6].value = 1 THEN 32 ELSE 0)
        /\ hex.original_number \in 0..63

\* a derived hexagram whose identity differs from its source's and whose
\* lines are not a palindrome, so that the bit order matters
C2_Witness ==
    /\ op = "derive"
    /\ hex.original_number # src.original_number
    /\ hex.yaos[1].value = 1
    /\ hex.yaos[6].value = 0
    /\ hex.yaos[2].value # hex.yaos[5].value

\* C3: get_changing_hexagram(P) copies every line whose position is not in
\* P or that is not changing; every line in P that is changing has its
\* value negated and changing = false.
C3_DeriveFrame ==
    op = "derive" =>
        \A k \in Lines :
            IF k \in positions /\ src.yaos[k].changing
            THEN /\ hex.yaos[k].value = 1 - src.yaos[k].value
                 /\ hex.yaos[k].changing = FALSE
            ELSE /\ hex.yaos[k].value = src.yaos[k].value
                 /\ hex.yaos[k].changing = src.yaos[k].changing
                 /\ hex.yaos[k].coins = src.yaos[k].coins

\* a call that names a changing line, names a line that is not changing and
\* leaves a changing line out
C3_Witness ==
    /\ op = "derive"
    /\ \E k \in Lines : k \in positions /\ src.yaos[k].changing
    /\ \E k \in Lines : k \in positions /\ ~src.yaos[k].changing
    /\ \E k \in Lines : k \notin positions /\ src.yaos[k].changing

\* C4: when P names no changing position of h (P empty included), the
\* result has the lines and the identity of h.
C4_NoopDerive ==
    (op = "derive" /\ \A k \in Lines : k \in positions => ~src.yaos[k].changing)
        => /\ \A k \in Lines :
                /\ hex.yaos[k].value = src.yaos[k].value
                /\ hex.yaos[k].changing = src.yaos[k].changing
                /\ hex.yaos[k].coins = src.yaos[k].coins
           /\ Len(hex.yaos) = 6
           /\ hex.original_number = src.original_number

\* a call naming only lines that are not changing, on a hexagram that has a
\* changing line
C4_Witness ==
    /\ op = "derive"
    /\ \E k \in Lines : k \in positions
    /\ \A k \in Lines : k \in positions => ~src.yaos[k].changing
    /\ \E k \in Lines : src.yaos[k].changing

\* C5: calling get_changing_hexagram(P) on the result of
\* get_changing_hexagram(P) returns a hexagram with the same lines and the
\* same identity.
C5_DeriveAgain ==
    repeat # "no" =>
        /\ \A k \in Lines :
                /\ hex.yaos[k].value = src.yaos[k].value
                /\ hex.yaos[k].changing = src.yaos[k].changing
                /\ hex.yaos[k].coins = src.yaos[k].coins
        /\ hex.original_number = src.original_number

\* the second of two calls with the same P, the first of which changed a line
C5_Witness ==
    /\ op = "derive"
    /\ repeat = "after_flip"

\* C6: in a generated hexagram and in every hexagram derived from it, each
\* line's value and changing flag are what the rule gives for its coins; a
\* line changed by a derivation has coins summing to 1 if it became Yang
\* and to 2 if it became Yin.
C6_CoinsDetermineLine ==
    /\ op \in {"generate", "derive"} =>
         \A k \in Lines :
            LET y == hex.yaos[k]
                s == y.coins[1] + y.coins[2] + y.coins[3]
            IN  /\ y.value = (IF s \in {1, 3} THEN 1 ELSE 0)
                /\ y.changing = (s \in {0, 3})
    /\ op = "derive" =>
         \A k \in Lines :
            (k \in positions /\ src.yaos[k].changing) =>
                LET y == hex.yaos[k]
                IN  y.coins[1] + y.coins[2] + y.coins[3]
                        = (IF y.value = 1 THEN 1 ELSE 2)

\* a derivation that turned one line into Yang and another into Yin
C6_Witness ==
    /\ op = "derive"
    /\ \E k \in Lines :
         k \in positions /\ src.yaos[k].changing /\ hex.yaos[k].value = 1
    /\ \E k \in Lines :
         k \in positions /\ src.yaos[k].changing /\ hex.yaos[k].value = 0

\* C7: Hexagram(yaos) never yields an object whose number of lines is not 6
\* or whose identity is outside 0..63.
C7_CtorFailsFast ==
    op = "construct" =>
        /\ Len(hex.yaos) = 6
        /\ hex.original_number \in 0..63

(***************************************************************************)
(* Claims about the session                                                *)
(***************************************************************************)
\* a change command that named an integer outside 1..6 left both hexagrams
\* as they were and printed a refusal
C8_Step ==
    (last'.kind = "change" /\ \E p \in last'.positions : p \notin 1..6) =>
        /\ original_hexagram' = original_hexagram
        /\ changed_hexagram' = changed_hexagram
        /\ last'.out \in {<<"error: position must be between 1-6">>,
                          <<"get an original hexagram first">>}

\* get_changing_hexagram treats a value outside 1..6 as naming no line
C8_NoClamp ==
    original_hexagram # None =>
        \A P \in PositionSets :
            get_changing_hexagram(original_hexagram, P)
                = get_changing_hexagram(original_hexagram, P \cap (1..6))

\* C8: a change command whose positions include an integer outside 1..6 is
\* refused: nothing is derived or stored and both hexagrams of the session
\* stay as they were, even when other positions named are valid and
\* changing; neither the command nor get_changing_hexagram maps a value
\* outside 1..6 to a line.
C8_OutOfRangeRejected == [][C8_Step]_vars /\ []C8_NoClamp

\* a refused command that named 7 together with a changing line, while a
\* changed hexagram from an earlier command was held
C8_Witness ==
    /\ last.kind = "change"
    /\ last.out = <<"error: position must be between 1-6">>
    /\ 7 \in last.positions
    /\ original_hexagram # None
    /\ changed_hexagram # None
    /\ \E p \in last.positions \cap (1..6) : original_hexagram.yaos[p].changing

\* C9: whatever the interpretation lookup does (text found, entry missing,
\* entry unreadable), a get or change command completes and the session
\* goes on reading commands.
C9_LookupNeverFatal ==
    last.kind \in {"get", "change"} => pc = "loop" /\ running

\* C10: after a get command the session holds an original hexagram and no
\* changed hexagram.
C10_GetDiscardsChanged ==
    last.kind = "get" =>
        /\ original_hexagram # None
        /\ Len(original_hexagram.yaos) = 6
        /\ changed_hexagram = None

\* a get command processed while a changed hexagram was held
C10_Witness ==
    /\ last.kind = "get"
    /\ last.had_changed
    /\ pc = "loop"

\* C11: with an original held, a change command whose positions are all in
\* 1..6 and include a changing line is carried out whatever other lines it
\* names: the changed hexagram stored is the original with exactly the named
\* changing lines changed, every other line, the named lines that are not
\* changing included, being as in the original.
C11_WarnDontFail ==
    (/\ last.kind = "change"
     /\ original_hexagram # None
     /\ last.positions # {}
     /\ last.positions \subseteq 1..6
     /\ \E p \in last.positions : original_hexagram.yaos[p].changing)
    => /\ pc = "loop"
       /\ \E i \in 1..Len(last.out) : last.out[i] = "changing positions"
       /\ changed_hexagram # None
       /\ changed_hexagram =
            get_changing_hexagram(original_hexagram,
                {p \in last.positions : original_hexagram.yaos[p].changing})
       /\ \A k \in Lines :
            LET o == original_hexagram.yaos[k]
                c == changed_hexagram.yaos[k]
            IN  IF k \in last.positions /\ o.changing
                THEN /\ c.value = 1 - o.value
                     /\ c.changing = FALSE
                     /\ c.coins = (IF o.value = 0 THEN <<1, 0, 0>>
                                                  ELSE <<0, 1, 1>>)
                ELSE c = o

\* a change carried out that named a changing line and one that is not
C11_Witness ==
    /\ last.kind = "change"
    /\ original_hexagram # None
    /\ changed_hexagram # None
    /\ last.positions \subseteq 1..6
    /\ \E p \in last.positions : original_hexagram.yaos[p].changing
    /\ \E p \in last.positions : ~original_hexagram.yaos[p].changing
    /\ last.out[1] = "warning: yao is not changing"

(***************************************************************************)
(* Claims about the display                                                *)
(***************************************************************************)
\* C12: the plain rendering of every line of a generated or derived
\* hexagram is the broken symbol exactly when the line is Yin and the solid
\* symbol exactly when it is Yang, which is the symbol colored_yao shows
\* for the line, and nothing else.
C12_PlainSymbol ==
    (op = "display" /\ ~printed.colored) =>
        \A j \in Lines :
            LET y == hex.yaos[7 - j]
            IN  /\ printed.lines[j] =
                      <<IF y.value = 0 THEN "### ###" ELSE "#######">>
                /\ printed.lines[j] =
                      <<colored_yao(y.coins, y.value, y.changing)[2]>>

\* C13: Hexagram.display prints six renderings, that of line 6 first and
\* that of line 1 last, each line once.
C13_TopToBottom ==
    op = "display" =>
        /\ Len(printed.lines) = 6
        /\ \A j \in Lines :
             printed.lines[j] = yao_display(hex.yaos[7 - j], printed.colored)

\* a colored display of a hexagram whose lines 1 and 6, 2 and 5, 3 and 4
\* render differently
C13_Witness ==
    /\ op = "display"
    /\ printed.colored
    /\ printed.lines[1] # printed.lines[6]
    /\ printed.lines[2] # printed.lines[5]
    /\ printed.lines[3] # printed.lines[4]

(***************************************************************************)
(* Further claims about the session                                        *)
(***************************************************************************)
\* a quit command or the end of input ends the loop and leaves both
\* hexagrams alone; nothing is processed once the loop has ended
C14_Step ==
    /\ last'.kind = "quit" =>
          /\ running' = FALSE
          /\ pc' = "done"
          /\ original_hexagram' = original_hexagram
          /\ changed_hexagram' = changed_hexagram
    /\ last'.kind = "end of input" =>
          /\ pc' = "done"
          /\ original_hexagram' = original_hexagram
          /\ changed_hexagram' = changed_hexagram
    /\ pc = "done" => UNCHANGED vars

\* C14: once a quit command is processed, running is false, the loop has
\* ended and no further command is processed; quit does not modify the
\* hexagrams.  End of input or an interrupt at the prompt ends the loop too.
C14_QuitEndsLoop == [][C14_Step]_vars

\* the loop ended by a quit command while both hexagrams were held
C14_Witness ==
    /\ last.kind = "quit"
    /\ pc = "done"
    /\ ~running
    /\ original_hexagram # None
    /\ changed_hexagram # None

\* C15: whenever a changed hexagram is held, an original is held and the
\* changed hexagram is the held original with a non-empty set of its
\* changing lines changed, so the two identities differ.
C15_ChangedFromOriginal ==
    changed_hexagram # None =>
        /\ original_hexagram # None
        /\ \E M \in SUBSET {k \in Lines : original_hexagram.yaos[k].changing} :
              /\ M # {}
              /\ changed_hexagram = get_changing_hexagram(original_hexagram, M)
              /\ \A k \in Lines :
                    IF k \in M
                    THEN changed_hexagram.yaos[k].value
                            = 1 - original_hexagram.yaos[k].value
                    ELSE changed_hexagram.yaos[k] = original_hexagram.yaos[k]
        /\ changed_hexagram.original_number # original_hexagram.original_number

\* a changed hexagram stored by a change command that replaced an earlier one
C15_Witness ==
    /\ last.kind = "change"
    /\ last.had_changed
    /\ changed_hexagram # None
    /\ \E i \in 1..Len(last.out) : last.out[i] = "changing positions"

\* a change command naming no changing line of the original, or no number
\* at all, and the show, help, empty and unknown commands leave both
\* hexagrams alone, print no error and leave the loop running
C16_Step ==
    (\/ last'.kind \in {"show", "help", "empty", "unknown"}
     \/ last'.kind = "change" /\ last'.positions = {}
     \/ /\ last'.kind = "change"
        /\ last'.positions \subseteq 1..6
        /\ original_hexagram # None
        /\ \A p \in last'.positions : ~original_hexagram.yaos[p].changing)
    => /\ original_hexagram' = original_hexagram
       /\ changed_hexagram' = changed_hexagram
       /\ running'
       /\ pc' = "loop"
       /\ \A i \in 1..Len(last'.out) :
             last'.out[i] \notin {"parsing error",
                                  "error: position must be between 1-6"}

\* C16: a change command whose positions are all in 1..6 and none changing
\* is no error and changes nothing in the session; the same holds of a
\* change command without numbers and of show, help, empty and unknown.
C16_NoopCommands == [][C16_Step]_vars

\* a change command naming only lines that are not changing, processed while
\* a changed hexagram from an earlier command was held, which is still held
C16_Witness ==
    /\ last.kind = "change"
    /\ last.positions # {}
    /\ last.out = <<"warning: yao is not changing", "no changeable yao">>
    /\ last.had_changed
    /\ changed_hexagram # None

\* a change command processed after a reset and before the next get is
\* refused and stores nothing
C17_Step ==
    (last.after_reset /\ last'.kind = "change") =>
        /\ original_hexagram' = None
        /\ changed_hexagram' = None
        /\ last'.out = <<"get an original hexagram first">>

\* C17: after a reset neither hexagram is held, and until the next get
\* every change command is refused without storing a changed hexagram.
C17_ResetClears ==
    /\ [](last.after_reset => original_hexagram = None /\ changed_hexagram = None)
    /\ [][C17_Step]_vars

\* a change command naming positions, refused after a reset of a table that
\* held a hexagram
C17_Witness ==
    /\ last.after_reset
    /\ last.kind = "change"
    /\ last.positions \cap (1..6) # {}
    /\ last.out = <<"get an original hexagram first">>
    /\ original_hexagram = None

\* a change command leaves the original as it was, and a changed hexagram
\* it stores has every line it did not name as in the original
C18_Step ==
    last'.kind = "change" =>
        /\ original_hexagram' = original_hexagram
        /\ (changed_hexagram' # None /\ original_hexagram # None) =>
              \A k \in Lines :
                 (\E i \in 1..Len(last'.out) :
                        last'.out[i] = "changing positions")
                    /\ k \notin last'.positions
                 => changed_hexagram'.yaos[k] = original_hexagram.yaos[k]

\* C18: a derivation does not modify its source: after a change command the
\* original has the lines and identity it had before, so successive change
\* commands all start from the same original.
C18_SourceUnmodified == [][C18_Step]_vars

\* a second change carried out on the same original, which still has the
\* changing line the command did not name
C18_Witness ==
    /\ last.kind = "change"
    /\ last.had_changed
    /\ changed_hexagram # None
    /\ \E i \in 1..Len(last.out) : last.out[i] = "changing positions"
    /\ \E k \in Lines :
         /\ k \notin last.positions
         /\ original_hexagram.yaos[k].changing
         /\ changed_hexagram.yaos[k].changing

====
